---------------------------- MODULE Spec2Model ----------------------------
(***************************************************************************)
(* A model of the EyeDropper component of react-eyedrop (src/src/index.js):*)
(* the pick lifecycle (pickColor, handleKeydown, cancelPick, stopPicking,  *)
(* targetToCanvas and the html2canvas continuation) and the sampling code  *)
(* (extractColor, extractColors, calcAverageColor, setColors).             *)
(*                                                                         *)
(* JavaScript runs one handler at a time, so every handler is one atomic   *)
(* action.  The only suspension point is the html2canvas promise: a click  *)
(* leaves a pending rasterization behind, which a later step resolves or   *)
(* rejects.                                                                *)
(***************************************************************************)
EXTENDS Integers, Sequences, FiniteSets

VARIABLES
    mounted,     \* the component is in the DOM (between didMount and willUnmount)
    picking,     \* this.picking
    listeners,   \* document's listeners of this instance: <<event type, handler>>
    cursor,      \* document.body.style.cursor
    pickRadius,  \* this.props.pickRadius
    canvas,      \* the bitmap html2canvas produces for the clicked target
    pending,     \* html2canvas promises not yet settled, with what their closure captured
    log,         \* the host callbacks invoked so far, in order
    reads,       \* coordinates passed to getCanvasPixelColor by the last continuation
    picked,      \* the {r, g, b} last passed to setColors
    colors,      \* the { rgb, hex } last passed to onChange (state.colors under passThrough)
    errors,      \* number of errors thrown by continuations (rejected promises)
    lastOp       \* the handler that ran last

vars == <<mounted, picking, listeners, cursor, pickRadius, canvas, pending,
          log, reads, picked, colors, errors, lastOp>>

-----------------------------------------------------------------------------
(* Bounds of the model *)

MaxAmount == 5      \* pickRadius.amount ranges over 0..MaxAmount
MaxOffset == 2      \* offsetX, offsetY of a click range over -1..MaxOffset
MaxLog == 10        \* no handler starts once the log holds MaxLog callbacks
MaxPending == 2     \* rasterizations in flight at once

-----------------------------------------------------------------------------
(* Props and collaborators *)

\* props.cursorActive / props.cursorInactive defaults (constructor)
cursorActive == "copy"
cursorInactive == "auto"

\* pickRadius is optional: given = FALSE is the absent (falsy) prop
NoRadius == [given |-> FALSE, unit |-> "", amount |-> 0]

Radius(u, a) == [given |-> TRUE, unit |-> u, amount |-> a]

\* 'percent' stands for any unit that is neither 'radius' nor 'pixel'
Units == {"radius", "pixel", "percent"}

Color(r, g, b) == [r |-> r, g |-> g, b |-> b]

\* A bitmap: one of three named pictures, or a picture one pixel high whose
\* pixels are (row[1], 0, 0), (row[2], 0, 0), ...
Bitmap(kind) == [kind |-> kind, row |-> <<>>]
RowBitmap(row) == [kind |-> "row", row |-> row]

\* The bitmaps the rasterizer may produce: uniform ones and one whose pixels
\* all differ in the window the model reads.
Canvases == {Bitmap("white"), Bitmap("sample"), Bitmap("gradient")}

\* getCanvasPixelColor(canvas, x, y): three channels in 0..255; outside the
\* picture, transparent black
getCanvasPixelColor(cv, x, y) ==
    CASE cv.kind = "white"  -> Color(255, 255, 255)
      [] cv.kind = "sample" -> Color(10, 20, 30)
      [] cv.kind = "row"    -> IF y = 0 /\ x \in 0..(Len(cv.row) - 1)
                               THEN Color(cv.row[x + 1], 0, 0)
                               ELSE Color(0, 0, 0)
      [] OTHER              -> Color((40 * (x + 1) + 7 * (y + 1)) % 256,
                                     (3 * (x + 1) + 50 * (y + 1)) % 256,
                                     255 - ((x + y + 2) % 256))

\* rgbToHex(a, b, c): '#' and each argument in base 16, zero-padded to two digits
RECURSIVE HexDigits(_)
HexDigits(n) == IF n < 16 THEN <<n>> ELSE Append(HexDigits(n \div 16), n % 16)

Hex2(n) == IF n < 16 THEN <<0, n>> ELSE HexDigits(n)

rgbToHex(a, b, c) == <<"#">> \o Hex2(a) \o Hex2(b) \o Hex2(c)

-----------------------------------------------------------------------------
(* extractColors: validation and the two nested loops *)

\* Radii without the final else: any other unit is taken as 'radius'
Radii_anyUnit(pr) ==
    IF pr.unit = "pixel"
    THEN IF pr.amount % 2 # 0
         THEN [ok |-> TRUE, maxRadius |-> (pr.amount - 1) \div 2,
               minRadius |-> -((pr.amount - 1) \div 2) - 1]
         ELSE [ok |-> FALSE, maxRadius |-> 0, minRadius |-> 0]
    ELSE [ok |-> TRUE, maxRadius |-> pr.amount, minRadius |-> -(pr.amount) - 1]

\* lines 130-143: the radii, or the error thrown
Radii(pr) ==
    IF pr.unit = "radius"
    THEN [ok |-> TRUE, maxRadius |-> pr.amount, minRadius |-> -(pr.amount) - 1]
    ELSE IF pr.unit = "pixel"
    THEN IF pr.amount % 2 # 0
         THEN [ok |-> TRUE, maxRadius |-> (pr.amount - 1) \div 2,
               minRadius |-> -((pr.amount - 1) \div 2) - 1]
         ELSE [ok |-> FALSE, maxRadius |-> 0, minRadius |-> 0]
    ELSE [ok |-> FALSE, maxRadius |-> 0, minRadius |-> 0]

\* the guard with || for &&
InBitmap_either(radialOffsetX, radialOffsetY) ==
    ~(radialOffsetX < 0) \/ ~(radialOffsetY < 0)

\* the guard with > 0 for !(< 0)
InBitmap_strict(radialOffsetX, radialOffsetY) ==
    radialOffsetX > 0 /\ radialOffsetY > 0

\* line 153: the guard of the push
InBitmap(radialOffsetX, radialOffsetY) ==
    ~(radialOffsetX < 0) /\ ~(radialOffsetY < 0)

\* lines 149-156: for (y = maxRadius; y !== minRadius; y--), from y on:
\* the coordinates pushed for this x
RECURSIVE LoopY(_, _, _, _, _)
LoopY(x, y, minRadius, offsetX, offsetY) ==
    IF y = minRadius THEN <<>>
    ELSE (IF InBitmap(offsetX - x, offsetY - y)
          THEN <<<<offsetX - x, offsetY - y>>>>
          ELSE <<>>)
         \o LoopY(x, y - 1, minRadius, offsetX, offsetY)

\* lines 148-157: for (x = maxRadius; x !== minRadius; x--), from x on
RECURSIVE LoopX(_, _, _, _, _)
LoopX(x, maxRadius, minRadius, offsetX, offsetY) ==
    IF x = minRadius THEN <<>>
    ELSE LoopY(x, maxRadius, minRadius, offsetX, offsetY)
         \o LoopX(x - 1, maxRadius, minRadius, offsetX, offsetY)

\* The coordinates extractColors passes to getCanvasPixelColor, in order
SampleCoords(pr, offsetX, offsetY) ==
    LET rd == Radii(pr)
    IN  LoopX(rd.maxRadius, rd.maxRadius, rd.minRadius, offsetX, offsetY)

\* lines 148-149: both loops count down from maxRadius by one and stop on
\* x !== minRadius (y !== minRadius) only: they meet minRadius, and exit, when
\* it is not above maxRadius, and count down forever when it is
LoopsExit(rd) == rd.minRadius <= rd.maxRadius

-----------------------------------------------------------------------------
(* calcAverageColor *)

\* One channel.  The code keeps a floating-point accumulator:
\*     total += c * c;  if (index !== 0) total = Math.sqrt(total / 2)
\* AccGE(cs, n, t) is "the accumulator after the first n samples is >= t",
\* decided in integers: for n >= 2, sqrt((prev + c^2) / 2) >= t  iff
\* t <= 0 or prev >= 2 t^2 - c^2.  With channels in 0..255 the accumulator
\* is at most 255^2 after one sample and at most 255 after two or more.
RECURSIVE AccGE(_, _, _)
AccGE(cs, n, t) ==
    IF n = 0 THEN 0 >= t
    ELSE IF n = 1 THEN cs[1] * cs[1] >= t
    ELSE IF t <= 0 THEN TRUE
    ELSE IF t > 255 THEN FALSE
    ELSE AccGE(cs, n - 1, 2 * t * t - cs[n] * cs[n])

\* the arithmetic mean in place of the running blend
RECURSIVE Sum(_, _)
Sum(cs, n) == IF n = 0 THEN 0 ELSE cs[n] + Sum(cs, n - 1)

Truncated_mean(cs) == IF Len(cs) = 0 THEN 0 ELSE Sum(cs, Len(cs)) \div Len(cs)

\* parseInt(total): the accumulator truncated to an integer
Truncated(cs) ==
    IF Len(cs) = 0 THEN 0
    ELSE IF Len(cs) = 1 THEN cs[1] * cs[1]
    ELSE CHOOSE k \in 0..255 : AccGE(cs, Len(cs), k) /\ ~AccGE(cs, Len(cs), k + 1)

\* the {r, g, b} calcAverageColor passes to setColors
calcAverageColor(samples) ==
    Color(Truncated([i \in 1..Len(samples) |-> samples[i].r]),
          Truncated([i \in 1..Len(samples) |-> samples[i].g]),
          Truncated([i \in 1..Len(samples) |-> samples[i].b]))

\* both encodings built in the order r, g, b
Encoded_inOrder(c) == [rgb |-> <<c.r, c.g, c.b>>, hex |-> rgbToHex(c.r, c.g, c.b)]

\* the { rgb, hex } setColors builds from {r, g, b}
Encoded(c) == [rgb |-> <<c.r, c.b, c.g>>, hex |-> rgbToHex(c.r, c.b, c.g)]

-----------------------------------------------------------------------------
(* The component *)

ClickListener == <<"click", "targetToCanvas">>
KeydownListener == <<"keydown", "handleKeydown">>
KeypressListener == <<"keypress", "handleKeydown">>

Keys == {"Escape", "a"}

\* no color has been passed to setColors yet
NoColor == [r |-> -1, g |-> -1, b |-> -1]

\* constructor: state.colors = { rgb: '', hex: '' }, picking = false
Constructed ==
    /\ mounted = FALSE
    /\ picking = FALSE
    /\ listeners = {}
    /\ cursor = ""
    /\ pending = <<>>
    /\ log = <<>>
    /\ reads = <<>>
    /\ picked = NoColor
    /\ colors = [rgb |-> <<>>, hex |-> <<>>]
    /\ errors = 0
    /\ lastOp = "constructor"

RemoveAt(s, i) == [j \in 1..(Len(s) - 1) |-> IF j < i THEN s[j] ELSE s[j + 1]]

componentDidMount ==
    /\ ~mounted
    /\ lastOp = "constructor"
    /\ mounted' = TRUE
    /\ log' = Append(log, "init")
    /\ lastOp' = "componentDidMount"
    /\ UNCHANGED <<picking, listeners, cursor, pickRadius, canvas, pending,
                   reads, picked, colors, errors>>

componentWillUnmount ==
    /\ mounted
    /\ mounted' = FALSE
    /\ listeners' = listeners \ {KeypressListener}
    /\ lastOp' = "componentWillUnmount"
    /\ UNCHANGED <<picking, cursor, pickRadius, canvas, pending, log,
                   reads, picked, colors, errors>>

\* pickColor returning early when already picking
pickColor_rejecting ==
    /\ mounted
    /\ lastOp' = "pickColor"
    /\ IF picking
       THEN UNCHANGED <<log, cursor, listeners, picking>>
       ELSE /\ log' = Append(log, "start")
            /\ cursor' = cursorActive
            /\ listeners' = listeners \cup {ClickListener, KeydownListener}
            /\ picking' = TRUE
    /\ UNCHANGED <<mounted, pickRadius, canvas, pending, reads, picked,
                   colors, errors>>

\* the rendered control calls pickColor from its onClick
pickColor ==
    /\ mounted
    /\ log' = Append(log, "start")
    /\ cursor' = cursorActive
    /\ listeners' = listeners \cup {ClickListener, KeydownListener}
    /\ picking' = TRUE
    /\ lastOp' = "pickColor"
    /\ UNCHANGED <<mounted, pickRadius, canvas, pending, reads, picked,
                   colors, errors>>

\* stopPicking leaving the click listener on the document
stopPicking_keepsClick(lg) ==
    /\ listeners' = listeners \ {KeydownListener}
    /\ cursor' = cursorInactive
    /\ log' = Append(lg, "stop")
    /\ picking' = FALSE

\* stopPicking leaving the keydown listener on the document
stopPicking_keepsKeydown(lg) ==
    /\ listeners' = listeners \ {ClickListener}
    /\ cursor' = cursorInactive
    /\ log' = Append(lg, "stop")
    /\ picking' = FALSE

\* stopPicking, called with the callbacks lg the running handler has made so far
stopPicking(lg) ==
    /\ listeners' = listeners \ {ClickListener, KeydownListener}
    /\ cursor' = cursorInactive
    /\ log' = Append(lg, "stop")
    /\ picking' = FALSE

\* cancelPick without the test of this.picking
cancelPick_unguarded ==
    /\ lastOp' = "cancelPick"
    /\ stopPicking(Append(log, "cancel"))
    /\ UNCHANGED <<mounted, pickRadius, canvas, pending, reads, picked,
                   colors, errors>>

\* cancelPick also dropping the rasterizations in flight
cancelPick_dropsPending ==
    /\ lastOp' = "cancelPick"
    /\ IF picking
       THEN stopPicking(Append(log, "cancel")) /\ pending' = <<>>
       ELSE UNCHANGED <<listeners, cursor, log, picking, pending>>
    /\ UNCHANGED <<mounted, pickRadius, canvas, reads, picked, colors, errors>>

cancelPick ==
    /\ lastOp' = "cancelPick"
    /\ IF picking
       THEN stopPicking(Append(log, "cancel"))
       ELSE UNCHANGED <<listeners, cursor, log, picking>>
    /\ UNCHANGED <<mounted, pickRadius, canvas, pending, reads, picked,
                   colors, errors>>

\* a keydown event reaches the document
handleKeydown(key) ==
    /\ KeydownListener \in listeners
    /\ IF key = "Escape"
       THEN cancelPick
       ELSE /\ lastOp' = "handleKeydown"
            /\ UNCHANGED <<mounted, picking, listeners, cursor, pickRadius,
                           canvas, pending, log, reads, picked, colors, errors>>

\* targetToCanvas calling stopPicking before onPickClick
targetToCanvas_stopsFirst(offsetX, offsetY) ==
    /\ ClickListener \in listeners
    /\ pending' = Append(pending, [offsetX |-> offsetX, offsetY |-> offsetY,
                                   pickRadius |-> pickRadius])
    /\ listeners' = listeners \ {ClickListener, KeydownListener}
    /\ cursor' = cursorInactive
    /\ log' = log \o <<"stop", "click">>
    /\ picking' = FALSE
    /\ lastOp' = "targetToCanvas"
    /\ UNCHANGED <<mounted, pickRadius, canvas, reads, picked, colors, errors>>

\* targetToCanvas validating the neighborhood spec before anything else
targetToCanvas_validating(offsetX, offsetY) ==
    /\ ClickListener \in listeners
    /\ lastOp' = "targetToCanvas"
    /\ IF pickRadius.given /\ ~Radii(pickRadius).ok
       THEN /\ errors' = errors + 1
            /\ UNCHANGED <<pending, listeners, cursor, log, picking>>
       ELSE /\ pending' = Append(pending, [offsetX |-> offsetX, offsetY |-> offsetY,
                                           pickRadius |-> pickRadius])
            /\ stopPicking(Append(log, "click"))
            /\ UNCHANGED errors
    /\ UNCHANGED <<mounted, pickRadius, canvas, reads, picked, colors>>

\* a click event with offsets (offsetX, offsetY) reaches the document
targetToCanvas(offsetX, offsetY) ==
    /\ ClickListener \in listeners
    /\ pending' = Append(pending, [offsetX |-> offsetX, offsetY |-> offsetY,
                                   pickRadius |-> pickRadius])
    /\ stopPicking(Append(log, "click"))
    /\ lastOp' = "targetToCanvas"
    /\ UNCHANGED <<mounted, pickRadius, canvas, reads, picked, colors, errors>>

\* setColors invoking onChange twice
setColors_twice(c) ==
    /\ picked' = c
    /\ colors' = Encoded(c)
    /\ log' = log \o <<"change", "change", "end">>

setColors(c) ==
    /\ picked' = c
    /\ colors' = Encoded(c)
    /\ log' = log \o <<"change", "end">>

extractColor(cv, offsetX, offsetY) ==
    /\ reads' = <<<<offsetX, offsetY>>>>
    /\ setColors(getCanvasPixelColor(cv, offsetX, offsetY))
    /\ UNCHANGED errors

extractColors(cv, offsetX, offsetY) ==
    IF Radii(pickRadius).ok
    THEN IF LoopsExit(Radii(pickRadius))
         THEN \E coords \in {SampleCoords(pickRadius, offsetX, offsetY)} :
              \E samples \in {[i \in 1..Len(coords) |->
                            getCanvasPixelColor(cv, coords[i][1], coords[i][2])]} :
              \E averageColor \in {calcAverageColor(samples)} :
                  /\ reads' = coords
                  /\ setColors(averageColor)
                  /\ UNCHANGED errors
         ELSE UNCHANGED <<reads, picked, colors, log, errors>>
    ELSE /\ errors' = errors + 1
         /\ reads' = <<>>
         /\ UNCHANGED <<picked, colors, log>>

\* the continuation never returns: the spec passes validation and the loops
\* of extractColors do not exit
Looping == pickRadius.given /\ Radii(pickRadius).ok /\ ~LoopsExit(Radii(pickRadius))

\* the html2canvas promise of pending[i] resolves: the .then continuation runs
Resolved(i) ==
    /\ i \in 1..Len(pending)
    /\ IF pending[i].pickRadius.given
       THEN extractColors(canvas, pending[i].offsetX, pending[i].offsetY)
       ELSE extractColor(canvas, pending[i].offsetX, pending[i].offsetY)
    /\ pending' = RemoveAt(pending, i)
    /\ lastOp' = IF Looping THEN "looping" ELSE "resolved"
    /\ UNCHANGED <<mounted, picking, listeners, cursor, pickRadius, canvas>>

\* a rejection handler that ends the pick with onPickEnd
Rejected_firesEnd(i) ==
    /\ i \in 1..Len(pending)
    /\ pending' = RemoveAt(pending, i)
    /\ lastOp' = "rejected"
    /\ log' = Append(log, "end")
    /\ UNCHANGED <<mounted, picking, listeners, cursor, pickRadius, canvas,
                   reads, picked, colors, errors>>

\* the html2canvas promise of pending[i] rejects: no handler is attached
Rejected(i) ==
    /\ i \in 1..Len(pending)
    /\ pending' = RemoveAt(pending, i)
    /\ lastOp' = "rejected"
    /\ UNCHANGED <<mounted, picking, listeners, cursor, pickRadius, canvas,
                   log, reads, picked, colors, errors>>

\* the host calls stopPicking on the instance
CallStopPicking ==
    /\ stopPicking(log)
    /\ lastOp' = "stopPicking"
    /\ UNCHANGED <<mounted, pickRadius, canvas, pending, reads, picked,
                   colors, errors>>

-----------------------------------------------------------------------------
(* Specifications *)

LogRoom == Len(log) < MaxLog
PendingRoom == Len(pending) < MaxPending

\* Spec: the lifecycle under the events the page can deliver
LifeRadii == {NoRadius, Radius("radius", 1), Radius("pixel", 2), Radius("percent", 1)}
LifeOffsets == {0, 1}

Init ==
    /\ Constructed
    /\ pickRadius \in LifeRadii
    /\ canvas = Bitmap("gradient")

Next ==
    \/ componentDidMount
    \/ componentWillUnmount
    \/ (LogRoom /\ pickColor)
    \/ \E key \in Keys : LogRoom /\ handleKeydown(key)
    \/ \E o \in LifeOffsets : LogRoom /\ PendingRoom /\ targetToCanvas(o, o)
    \/ \E i \in 1..MaxPending : LogRoom /\ Resolved(i)
    \/ \E i \in 1..MaxPending : Rejected(i)

Spec == Init /\ [][Next]_vars

\* SpecRef: as Spec, and the host also calls the methods of the mounted instance
\* (through a ref)
NextRef ==
    \/ Next
    \/ (LogRoom /\ mounted /\ cancelPick)
    \/ (LogRoom /\ mounted /\ CallStopPicking)

SpecRef == Init /\ [][NextRef]_vars

\* SpecLive: as SpecRef without stopPicking calls, where every rasterization
\* resolves: no promise rejects, and a pending promise is resolved in the end
\* (the log bound holds back new events, never a continuation)
Settle == \E i \in 1..MaxPending : Resolved(i)

NextLive ==
    \/ componentDidMount
    \/ componentWillUnmount
    \/ (LogRoom /\ pickColor)
    \/ \E key \in Keys : LogRoom /\ handleKeydown(key)
    \/ (LogRoom /\ mounted /\ cancelPick)
    \/ \E o \in LifeOffsets : LogRoom /\ PendingRoom /\ targetToCanvas(o, o)
    \/ Settle

SpecLive == Init /\ [][NextLive]_vars /\ WF_vars(Settle)

\* SpecSampler: one pick, over every neighborhood spec, bitmap and click offset
AllRadii == {NoRadius} \cup {Radius(u, a) : u \in Units, a \in 0..MaxAmount}
Offsets == -1..MaxOffset

InitSampler ==
    /\ Constructed
    /\ pickRadius \in AllRadii
    /\ canvas \in Canvases

NextSampler ==
    \/ componentDidMount
    \/ (lastOp = "componentDidMount" /\ pickColor)
    \/ \E ox \in Offsets, oy \in Offsets : targetToCanvas(ox, oy)
    \/ Resolved(1)

SpecSampler == InitSampler /\ [][NextSampler]_vars

\* SpecAmounts: one pick over neighborhood specs of either sign; a
\* continuation that never returns keeps the thread, so nothing runs after it
Amounts == -MaxAmount..MaxAmount

InitAmounts ==
    /\ Constructed
    /\ pickRadius \in {Radius(u, a) : u \in Units, a \in Amounts}
    /\ canvas = Bitmap("gradient")

NextAmounts ==
    \/ (lastOp # "looping" /\ componentDidMount)
    \/ (lastOp = "componentDidMount" /\ pickColor)
    \/ \E o \in LifeOffsets : lastOp # "looping" /\ targetToCanvas(o, o)
    \/ (lastOp # "looping" /\ Resolved(1))

SpecAmounts == InitAmounts /\ [][NextAmounts]_vars

\* SpecAverage: one pick with unit 'radius', amount 1 at the top edge of a
\* one-pixel-high bitmap, so that two or three pixels of its row are sampled
ChannelSamples == {0, 1, 2, 3, 100, 127, 128, 180, 181, 254, 255}
EdgeOffsets == {0, 1}

InitAverage ==
    /\ Constructed
    /\ pickRadius = Radius("radius", 1)
    /\ canvas \in {RowBitmap(<<a, b, c>>) : a, b, c \in ChannelSamples}

NextAverage ==
    \/ componentDidMount
    \/ (lastOp = "componentDidMount" /\ pickColor)
    \/ \E ox \in EdgeOffsets : targetToCanvas(ox, -1)
    \/ Resolved(1)

SpecAverage == InitAverage /\ [][NextAverage]_vars

-----------------------------------------------------------------------------
(* Vocabulary of the properties *)

Count(s, e) == Cardinality({i \in 1..Len(s) : s[i] = e})

Last(s) == s[Len(s)]

\* a neighborhood spec is valid: unit 'radius', or unit 'pixel' with an odd amount
ValidSpec(pr) ==
    \/ pr.unit = "radius"
    \/ pr.unit = "pixel" /\ pr.amount % 2 = 1

\* the component samples a neighborhood and its spec is invalid
InvalidNeighborhood == pickRadius.given /\ ~ValidSpec(pickRadius)

\* the step is a click handled by targetToCanvas
ClickStep == lastOp' = "targetToCanvas" /\ ClickListener \in listeners

\* the step is the continuation of a resolved rasterization
ResolvedStep == lastOp' = "resolved" /\ Len(pending') < Len(pending)

\* the step is a call of cancelPick
CancelStep == lastOp' = "cancelPick"

-----------------------------------------------------------------------------
-----------------------------------------------------------------------------
(* C2: cancelPick while Idle changes nothing and fires no hook; cancelPick *)
(* while Armed fires pick-cancel once, then the teardown (pick-stop), and  *)
(* leaves picking false, both listeners removed and the inactive cursor,   *)
(* with no rasterization requested and no result reported; after a         *)
(* pick-cancel no pick-click fires until the next pick-start.              *)
CancelContract ==
    /\ [][CancelStep =>
            IF picking
            THEN /\ log' = log \o <<"cancel", "stop">>
                 /\ picking' = FALSE
                 /\ ClickListener \notin listeners'
                 /\ KeydownListener \notin listeners'
                 /\ cursor' = cursorInactive
                 /\ UNCHANGED <<mounted, pending, reads, picked, colors, errors>>
            ELSE UNCHANGED <<mounted, picking, listeners, cursor, pending, log,
                             reads, picked, colors, errors>>]_vars
    /\ [](\A i \in 1..Len(log) : log[i] = "cancel" =>
             \A j \in (i + 1)..Len(log) : log[j] = "click" =>
                 \E k \in (i + 1)..(j - 1) : log[k] = "start")

\* a cancel has just ended an Armed session
CancelledWhileArmed ==
    /\ lastOp = "cancelPick"
    /\ Len(log) >= 3
    /\ log[Len(log) - 2] = "start"
    /\ log[Len(log) - 1] = "cancel"
    /\ Last(log) = "stop"
    /\ ~picking

-----------------------------------------------------------------------------
(* C3: once the component is unmounted, none of its listeners is left on   *)
(* the document.                                                           *)
UnmountReleasesListeners ==
    (~mounted /\ lastOp # "constructor") =>
        (ClickListener \notin listeners /\ KeydownListener \notin listeners)

-----------------------------------------------------------------------------
(* C4, as claimed: pick-start never runs ahead of pick-stop by more than   *)
(* one.                                                                    *)
StartsWithinOneOfStops == Count(log, "start") <= Count(log, "stop") + 1

(* C4, amended: pickColor while Armed is not rejected: it fires pick-start *)
(* again, and leaves the picking flag, the listeners, the cursor and the   *)
(* pending rasterizations as they were.                                    *)
RearmFiresStartOnly ==
    [][(lastOp' = "pickColor" /\ picking) =>
          /\ log' = Append(log, "start")
          /\ UNCHANGED <<mounted, picking, listeners, cursor, pending, reads,
                         picked, colors, errors>>]_vars

\* pickColor has run while Armed
Rearmed ==
    /\ lastOp = "pickColor"
    /\ Len(log) >= 2
    /\ log[Len(log) - 1] = "start"
    /\ Last(log) = "start"

-----------------------------------------------------------------------------
(* C5: the result callback runs at most once per click: results reported   *)
(* plus rasterizations in flight never exceed the clicks handled; a        *)
(* resolved rasterization reports exactly once when the spec is valid (or  *)
(* absent) and not at all otherwise; a cancel or a rejection reports       *)
(* nothing.                                                                *)
OneColorPerPick ==
    /\ [](Count(log, "change") + Len(pending) <= Count(log, "click"))
    /\ [][ResolvedStep =>
            IF InvalidNeighborhood
            THEN log' = log
            ELSE log' = log \o <<"change", "end">>]_vars
    /\ [][(CancelStep \/ lastOp' = "rejected") =>
            /\ Count(log', "change") = Count(log, "change")
            /\ Len(pending') <= Len(pending)]_vars

\* a resolved rasterization has just reported its color
ColorReported ==
    /\ lastOp = "resolved"
    /\ Len(log) >= 2
    /\ log[Len(log) - 1] = "change"
    /\ Count(log, "change") = Count(log, "click")

-----------------------------------------------------------------------------
(* C6, as claimed: with an invalid neighborhood spec the click itself      *)
(* raises the error: no rasterization is requested, no hook fires and the  *)
(* session is not torn down.                                               *)
FailsFastAtClick ==
    [][(ClickStep /\ InvalidNeighborhood) =>
          /\ errors' = errors + 1
          /\ pending' = pending
          /\ log' = log
          /\ UNCHANGED <<picking, listeners, cursor>>]_vars

(* C6, amended: with an invalid neighborhood spec the click raises         *)
(* nothing: it requests the rasterization, fires pick-click, tears the     *)
(* session down and fires pick-stop; the error is raised later, by the     *)
(* continuation of the resolved rasterization, and only there.             *)
ValidationInContinuation ==
    /\ [][(ClickStep /\ InvalidNeighborhood) =>
            /\ errors' = errors
            /\ Len(pending') = Len(pending) + 1
            /\ log' = log \o <<"click", "stop">>
            /\ picking' = FALSE
            /\ ClickListener \notin listeners']_vars
    /\ [][(ResolvedStep /\ InvalidNeighborhood) => errors' = errors + 1]_vars
    /\ [][errors' # errors => lastOp' = "resolved"]_vars

\* the error of an invalid spec has been raised, after the teardown of its click
ErrorRaisedAfterTeardown ==
    /\ lastOp = "resolved"
    /\ errors = 1
    /\ InvalidNeighborhood
    /\ Len(log) >= 2
    /\ log[Len(log) - 1] = "click"
    /\ Last(log) = "stop"

-----------------------------------------------------------------------------
(* C7: when the continuation finds the neighborhood spec invalid, it reads *)
(* no pixel and reports nothing: no color reaches setColors, and neither   *)
(* the result callback nor pick-end is invoked.                            *)
NoReadOnInvalidSpec ==
    (lastOp = "resolved" /\ InvalidNeighborhood) =>
        /\ reads = <<>>
        /\ picked = NoColor
        /\ colors = [rgb |-> <<>>, hex |-> <<>>]
        /\ Count(log, "change") = 0
        /\ Count(log, "end") = 0

\* the continuation has run with unit 'pixel', amount 4
EvenPixelAmountResolved ==
    /\ lastOp = "resolved"
    /\ pickRadius = Radius("pixel", 4)
    /\ errors = 1

-----------------------------------------------------------------------------
(* C8: when the neighborhood path collects exactly one sample, the color   *)
(* passed to setColors is that sample.                                     *)
SingleSampleUnchanged ==
    (lastOp = "resolved" /\ pickRadius.given /\ Len(reads) = 1) =>
        picked = getCanvasPixelColor(canvas, reads[1][1], reads[1][2])

-----------------------------------------------------------------------------
(* C9: every color passed to setColors has its three channels in 0..255.   *)
ChannelsInRange ==
    picked # NoColor =>
        (picked.r \in 0..255 /\ picked.g \in 0..255 /\ picked.b \in 0..255)

-----------------------------------------------------------------------------
(* C10: for a valid spec with maxRadius m and click offset (cx, cy), the   *)
(* continuation reads exactly the cells (cx - x, cy - y), x and y in       *)
(* -m..m, that have no negative component, each once, x descending from m  *)
(* and, for each x, y descending from m; no cell with a negative component *)
(* is read; unit 'pixel', amount 5 with cx, cy >= 2 reads 25 cells.        *)
MaxRadiusOf(pr) == IF pr.unit = "pixel" THEN (pr.amount - 1) \div 2 ELSE pr.amount

\* the (2m+1) x (2m+1) grid around (cx, cy), x descending, then y descending
Grid(m, cx, cy) ==
    [k \in 1..((2 * m + 1) * (2 * m + 1)) |->
        <<cx - (m - ((k - 1) \div (2 * m + 1))),
          cy - (m - ((k - 1) % (2 * m + 1)))>>]

NonNegative(c) == c[1] >= 0 /\ c[2] >= 0

NeighborhoodEnumeration ==
    [][(ResolvedStep /\ pickRadius.given /\ ValidSpec(pickRadius)) =>
          \E i \in 1..Len(pending) :
              LET cx == pending[i].offsetX
                  cy == pending[i].offsetY
                  m == MaxRadiusOf(pickRadius)
              IN  /\ pending' = RemoveAt(pending, i)
                  /\ reads' = SelectSeq(Grid(m, cx, cy), NonNegative)
                  /\ \A a, b \in 1..Len(reads') : reads'[a] = reads'[b] => a = b
                  /\ \A a \in 1..Len(reads') : NonNegative(reads'[a])
                  /\ (pickRadius = Radius("pixel", 5) /\ cx >= 2 /\ cy >= 2)
                        => Len(reads') = 25
                  /\ (cx < m \/ cy < m)
                        => Len(reads') < (2 * m + 1) * (2 * m + 1)]_vars

\* a 5 x 5 neighborhood has been read whole
FiveByFiveRead ==
    /\ lastOp = "resolved"
    /\ pickRadius = Radius("pixel", 5)
    /\ Len(reads) = 25

-----------------------------------------------------------------------------
(* C11: teardown is idempotent: stopPicking invoked while the session is   *)
(* not Armed fires no hook and changes nothing.                            *)
TeardownIdempotent ==
    [][(lastOp' = "stopPicking" /\ ~picking) =>
          UNCHANGED <<mounted, picking, listeners, cursor, pending, log, reads,
                      picked, colors, errors>>]_vars

-----------------------------------------------------------------------------
(* C12: the aggregate of several samples follows the recurrence            *)
(* acc += c*c, then acc = sqrt(acc / 2) for every sample but the first,    *)
(* truncated at the end.  For two samples a, b the result is the integer k *)
(* with 2 k^2 <= a^2 + b^2 < 2 (k+1)^2 (180 for 255 and 0); for three      *)
(* samples a, b, c it is the integer k with                                *)
(* sqrt((sqrt((a^2 + b^2) / 2) + c^2) / 2) in [k, k+1).                    *)

\* sqrt((a^2 + b^2) / 2) >= u, for channels a, b in 0..255
Blend2GE(a, b, u) == u <= 0 \/ (u <= 255 /\ 2 * u * u <= a * a + b * b)

\* sqrt((sqrt((a^2 + b^2) / 2) + c^2) / 2) >= t
Blend3GE(a, b, c, t) == t <= 0 \/ Blend2GE(a, b, 2 * t * t - c * c)

RecurrenceFollowed ==
    lastOp = "resolved" =>
        LET a == canvas.row[1]
            b == canvas.row[2]
            c == canvas.row[3]
            k == picked.r
        IN  /\ picked.g = 0 /\ picked.b = 0
            /\ Len(reads) \in {2, 3}
            /\ Len(reads) = 2 =>
                  /\ reads = <<<<0, 0>>, <<1, 0>>>>
                  /\ 2 * k * k <= a * a + b * b
                  /\ a * a + b * b < 2 * (k + 1) * (k + 1)
                  /\ (a = 255 /\ b = 0) => k = 180
            /\ Len(reads) = 3 =>
                  /\ reads = <<<<0, 0>>, <<1, 0>>, <<2, 0>>>>
                  /\ Blend3GE(a, b, c, k)
                  /\ ~Blend3GE(a, b, c, k + 1)

\* three samples whose aggregate differs from that of the same samples reversed
OrderMatters ==
    /\ lastOp = "resolved"
    /\ Len(reads) = 3
    /\ canvas.row = <<255, 0, 0>>
    /\ picked.r = 9
    /\ Truncated(<<0, 0, 255>>) = 180

-----------------------------------------------------------------------------
(* C13: the channel order of the two encodings of a reported color.        *)

\* the i-th two-digit channel of a hex string '#' d d d d d d
HexChannel(hex, i) == 16 * hex[2 * i] + hex[2 * i + 1]

\* a color has been reported whose channels are two hex digits each
ByteColorReported ==
    /\ picked # NoColor
    /\ picked.r \in 0..255 /\ picked.g \in 0..255 /\ picked.b \in 0..255

-----------------------------------------------------------------------------
(* C14, as claimed: the Armed session, if any, and the rasterizations in   *)
(* flight number at most one together.                                     *)
AtMostOneActive == (IF picking THEN 1 ELSE 0) + Len(pending) <= 1

(* C14, amended: a rasterization is requested only by a click on an Armed  *)
(* session, one per click, and the click disarms the session in the same   *)
(* step, so an Armed session starts at most one rasterization; but a new   *)
(* pick can be armed, and its click can start a further rasterization,     *)
(* while earlier rasterizations are still pending.                         *)
OneRasterizationPerArm ==
    [][Len(pending') > Len(pending) =>
          /\ lastOp' = "targetToCanvas"
          /\ picking
          /\ ClickListener \in listeners
          /\ Len(pending') = Len(pending) + 1
          /\ picking' = FALSE
          /\ ClickListener \notin listeners']_vars

\* a second rasterization has been started while the first is pending
TwoRasterizationsPending ==
    /\ lastOp = "targetToCanvas"
    /\ Len(pending) = 2
    /\ ~picking

-----------------------------------------------------------------------------
(* C15, as claimed: while a rasterization is pending, a cancel (Escape or  *)
(* a cancelPick call) fires no hook and changes nothing.                   *)
CancelWhileSamplingIsNoOp ==
    [][(CancelStep /\ Len(pending) > 0) =>
          UNCHANGED <<mounted, picking, listeners, cursor, pending, log, reads,
                      picked, colors, errors>>]_vars

(* C15, amended: a cancel never touches a pending rasterization; while no  *)
(* new pick is armed it fires no hook and changes nothing, and when a new  *)
(* pick has been armed in the meantime it cancels that new pick only.  The *)
(* continuation reads the bitmap at the offsets captured by the click, and *)
(* if rasterization resolves and the spec is valid (or absent), onChange   *)
(* and then pick-end are eventually invoked for the click.                 *)

\* the coordinates the continuation of pending rasterization p reads
ExpectedReads(p) ==
    IF ~pickRadius.given THEN <<<<p.offsetX, p.offsetY>>>>
    ELSE IF ValidSpec(pickRadius)
    THEN SelectSeq(Grid(MaxRadiusOf(pickRadius), p.offsetX, p.offsetY), NonNegative)
    ELSE <<>>

\* a click at (o, o) awaits its rasterization
Sampling(o) == \E i \in 1..Len(pending) : pending[i].offsetX = o /\ pending[i].offsetY = o

\* a continuation has just reported the color sampled around (o, o)
Reported(o) ==
    /\ lastOp = "resolved"
    /\ \E a \in 1..Len(reads) : reads[a] = <<o, o>>
    /\ Len(log) >= 2
    /\ log[Len(log) - 1] = "change"
    /\ Last(log) = "end"

PickRunsToCompletion ==
    /\ [][(CancelStep \/ lastOp' = "handleKeydown") =>
            /\ pending' = pending
            /\ ~picking => UNCHANGED <<mounted, picking, listeners, cursor, log,
                                       reads, picked, colors, errors>>
            /\ picking => (picking' = FALSE \/ lastOp' = "handleKeydown")]_vars
    /\ [][ResolvedStep =>
            \E i \in 1..Len(pending) :
                /\ pending' = RemoveAt(pending, i)
                /\ reads' = ExpectedReads(pending[i])]_vars
    /\ \A o \in LifeOffsets :
          (Sampling(o) /\ ~InvalidNeighborhood) ~> Reported(o)

\* a later pick was cancelled while the rasterization of the only click was
\* pending, and that click's color was reported all the same
ReportedDespiteCancel ==
    /\ lastOp = "resolved"
    /\ Count(log, "click") = 1
    /\ \E i \in 1..Len(log) : \E j \in (i + 1)..Len(log) :
          log[i] = "click" /\ log[j] = "cancel"
    /\ Last(log) = "end"

-----------------------------------------------------------------------------
(* C16: listener and cursor ownership.  Between handlers, picking is true  *)
(* exactly when the click listener and the keydown listener are both on    *)
(* the document and the body cursor is the active style; while picking is  *)
(* false neither listener is registered and, once a pick has been armed,   *)
(* the cursor is the inactive style.  The click exit and the cancel exit   *)
(* of an armed session both run stopPicking: pick-stop is the last hook of *)
(* the handler and the Idle side holds after it.                           *)

\* both document listeners of the session are registered
BothListeners == ClickListener \in listeners /\ KeydownListener \in listeners

\* neither document listener of the session is registered
NoListener == ClickListener \notin listeners /\ KeydownListener \notin listeners

Ownership ==
    /\ picking <=> (BothListeners /\ cursor = cursorActive)
    /\ ~picking => /\ NoListener
                   /\ Count(log, "start") >= 1 => cursor = cursorInactive

ListenerCursorOwnership ==
    /\ []Ownership
    /\ [][(ClickStep \/ (CancelStep /\ picking)) =>
            /\ log' # <<>> /\ Last(log') = "stop"
            /\ Count(log', "stop") = Count(log, "stop") + 1
            /\ ~picking'
            /\ NoListener'
            /\ cursor' = cursorInactive]_vars

\* a session left by a click and a later one left by a cancel are both torn down
BothExitsTornDown ==
    /\ lastOp = "cancelPick"
    /\ Count(log, "click") >= 1
    /\ Count(log, "cancel") >= 1
    /\ Last(log) = "stop"
    /\ ~picking
    /\ NoListener
    /\ cursor = cursorInactive

-----------------------------------------------------------------------------
(* C17: a rejected rasterization ends its pick silently.  The rejection    *)
(* takes the click's rasterization away for good (nothing is requested     *)
(* again), invokes no hook and no result callback, and leaves the picking  *)
(* flag, the listeners and the cursor as they were: Idle, as the click's   *)
(* teardown left them, when no hook has fired since.  A result and a       *)
(* pick-end come from the continuation of a resolved rasterization only.   *)

\* the step is the rejection of a rasterization
RejectedStep == lastOp' = "rejected" /\ Len(pending') < Len(pending)

RejectionIsSilent ==
    /\ [][RejectedStep =>
            /\ \E i \in 1..Len(pending) : pending' = RemoveAt(pending, i)
            /\ UNCHANGED <<mounted, picking, listeners, cursor, log, reads,
                           picked, colors, errors>>
            /\ Last(log) = "stop" =>
                  (~picking' /\ NoListener' /\ cursor' = cursorInactive)]_vars
    /\ [][(Count(log', "change") > Count(log, "change")
            \/ Count(log', "end") > Count(log, "end")) => ResolvedStep]_vars

\* the only click's rasterization was rejected: the session is Idle and the
\* last hook is the pick-stop of the click's teardown
RejectedAfterTeardown ==
    /\ lastOp = "rejected"
    /\ pending = <<>>
    /\ Count(log, "click") = 1
    /\ Last(log) = "stop"
    /\ Count(log, "change") = 0
    /\ ~picking

-----------------------------------------------------------------------------
(* C18, as claimed: sample gathering terminates for every neighborhood     *)
(* spec that passes validation, of any sign: unit 'radius' with any        *)
(* amount, unit 'pixel' with any amount for which amount % 2 != 0.  The    *)
(* continuation of such a spec leaves the loops, reaches calcAverageColor  *)
(* and reports its result.                                                 *)

\* the step is a run of the continuation, returning or not
ContinuationStep == lastOp' \in {"resolved", "looping"} /\ Len(pending') < Len(pending)

ValidatedGatheringTerminates ==
    [][(ContinuationStep /\ pickRadius.given /\ ValidSpec(pickRadius)) =>
          /\ lastOp' = "resolved"
          /\ Count(log', "change") = Count(log, "change") + 1]_vars

-----------------------------------------------------------------------------
(* C19: the aggregator is never handed an empty sample set.  For a valid   *)
(* neighborhood spec with a non-negative amount and a click at (cx, cy)    *)
(* with cx >= 0 and cy >= 0, the samples gathered for calcAverageColor are *)
(* at least one and include the one at (cx, cy) itself.                    *)
ClickPointSampled ==
    [][\A i \in 1..Len(pending) :
          (/\ ResolvedStep
           /\ pending' = RemoveAt(pending, i)
           /\ pickRadius.given
           /\ ValidSpec(pickRadius)
           /\ pickRadius.amount >= 0
           /\ pending[i].offsetX >= 0
           /\ pending[i].offsetY >= 0) =>
              /\ Len(reads') >= 1
              /\ \E a \in 1..Len(reads') :
                    reads'[a] = <<pending[i].offsetX, pending[i].offsetY>>
              /\ Count(log', "change") = Count(log, "change") + 1]_vars

\* a click at the corner (0, 0) with amount 0: the click point is the one sample
CornerPointAlone ==
    /\ lastOp = "resolved"
    /\ pickRadius.given
    /\ ValidSpec(pickRadius)
    /\ reads = <<<<0, 0>>>>
    /\ Count(log, "change") = 1

=============================================================================
